---- MODULE Spec2Model ----
(***************************************************************************)
(* Model of allel/model.py (scikit-allel): the diploid genotype packing    *)
(* entry points GenotypeArray.to_packed / GenotypeArray.from_packed and    *)
(* the SortedIndex search structure.                                       *)
(*                                                                         *)
(* The specifications share the variables below:                           *)
(*   SpecCodec     - genotype arrays, to_packed, from_packed               *)
(*   SpecIndex     - SortedIndex construction, indexing and lookups        *)
(*   SpecIntersect - SortedIndex lookups of a second key sequence          *)
(*   SpecRanges    - SortedIndex lookups of several ranges                 *)
(*   SpecMulti     - SortedMultiIndex lookups                              *)
(* Each leaves the variables it does not use at their initial value.       *)
(***************************************************************************)
EXTENDS Integers, Sequences, FiniteSets, TLC

\* ------------------------------------------------------------------------
\* Bounds of the model
\* ------------------------------------------------------------------------

\* highest allele value drawn for a single-call genotype array
MaxAllele == 16

\* how many allele values below the missing allele -1 are drawn for a
\* single-call genotype array
BelowMissing == 2

\* number of calls (variants x samples) of the larger genotype arrays
MaxCalls == 2

\* longest key sequence handed to SortedIndex
MaxLen == 3

\* keys are drawn from 0..MaxKey
MaxKey == 2

\* most ranges handed to the lookups of several ranges
MaxRanges == 2

\* genotype calls that are classified have 2..MaxPloidy alleles
MaxPloidy == 3

\* axis lengths of the arrays that are indexed are drawn from 0..MaxDim
MaxDim == 2

\* most writes the caller makes to the sequences an index was built from
MaxWrites == 1

\* ------------------------------------------------------------------------
\* Values shared by both parts
\* ------------------------------------------------------------------------

\* Python's None where an integer may stand (a slice or range bound): no key,
\* position or allele of the model has this value
None == -999

\* the value of an outcome that carries none (an exception without
\* arguments, nothing returned yet)
NoValue == <<>>

Min(a, b) == IF a <= b THEN a ELSE b

Max(a, b) == IF a >= b THEN a ELSE b

\* the sequences over S of length lo..hi
SeqsOf(S, lo, hi) == UNION {[1..n -> S] : n \in lo..hi}

\* ------------------------------------------------------------------------
\* Diploid codec
\* ------------------------------------------------------------------------

\* numpy astype(np.int8): two's complement wrap to 8 signed bits
AsInt8(v) == ((v + 128) % 256) - 128

\* numpy astype(np.uint8): wrap to 8 unsigned bits
AsUint8(v) == v % 256

\* nibble of one allele: a negative allele is the sentinel 15, otherwise a & 0xF
Nibble(a) == IF a < 0 THEN 15 ELSE a % 16

\* allel.opt.gt.pack_diploid on one call: ((n1 & 0xF) << 4) | (n2 & 0xF)
pack_diploid(call) == Nibble(call[1]) * 16 + Nibble(call[2])

\* decoding of one nibble: 15 is the missing allele
Decode(n) == IF n = 15 THEN -1 ELSE n

\* allel.opt.gt.unpack_diploid on one byte: h = byte >> 4, l = byte & 0xF
unpack_diploid(b) == <<Decode(b \div 16), Decode(b % 16)>>

\* all allele values of a genotype array (a sequence of calls)
AllelesOf(g) == {g[i][k] : i \in DOMAIN g, k \in 1..2}

\* ndarray.max() / ndarray.min() over the whole array
ArrMax(g) == CHOOSE m \in AllelesOf(g) : \A v \in AllelesOf(g) : v <= m

ArrMin(g) == CHOOSE m \in AllelesOf(g) : \A v \in AllelesOf(g) : m <= v

\* a raised exception
Raise(kind) == [status |-> kind, value |-> NoValue]

\* no call made yet
NoOutcome == [status |-> "none", value |-> NoValue]

\* no genotype array / no packed array at hand
NoArray == [calls |-> <<>>, ploidy |-> 0]

NoPacked == [bytes |-> <<>>, ndim |-> 0]

\* a SortedIndex operation with its arguments and its outcome
Op(name, args, out) == [op |-> name, args |-> args, out |-> out]

\* no operation performed yet
NoOp == Op("none", <<>>, NoOutcome)

\* no SortedMultiIndex at hand
NoMulti == [l1 |-> <<>>, l2 |-> <<>>]

\* no sequences of the caller at hand
NoCaller ==
    [kind |-> "none", l1 |-> <<>>, l2 |-> <<>>, shared |-> FALSE, writes |-> 0]

\* a returned value
Return(v) == [status |-> "ok", value |-> v]

\* to_packed with the lower bound test written as amn < 0
to_packed_min0(g, ploidy, boundscheck) ==
    IF ploidy # 2 THEN Raise("ValueError")
    ELSE IF boundscheck /\ ArrMax(g) > 14 THEN Raise("ValueError")
    ELSE IF boundscheck /\ ArrMin(g) < 0 THEN Raise("ValueError")
    ELSE Return([i \in DOMAIN g |->
                    pack_diploid(<<AsInt8(g[i][1]), AsInt8(g[i][2])>>)])

\* to_packed with the upper bound test written as amx >= 14
to_packed_max14(g, ploidy, boundscheck) ==
    IF ploidy # 2 THEN Raise("ValueError")
    ELSE IF boundscheck /\ ArrMax(g) >= 14 THEN Raise("ValueError")
    ELSE IF boundscheck /\ ArrMin(g) < -1 THEN Raise("ValueError")
    ELSE Return([i \in DOMAIN g |->
                    pack_diploid(<<AsInt8(g[i][1]), AsInt8(g[i][2])>>)])

\* GenotypeArray.to_packed(boundscheck)
to_packed(g, ploidy, boundscheck) ==
    IF ploidy # 2 THEN Raise("ValueError")
    ELSE IF boundscheck /\ ArrMax(g) > 14 THEN Raise("ValueError")
    ELSE IF boundscheck /\ ArrMin(g) < -1 THEN Raise("ValueError")
    ELSE Return([i \in DOMAIN g |->
                    pack_diploid(<<AsInt8(g[i][1]), AsInt8(g[i][2])>>)])

\* from_packed converting the bytes to int8 instead of uint8
from_packed_int8(p, ndim) ==
    IF ndim # 2 THEN Raise("ValueError")
    ELSE Return([i \in DOMAIN p |-> unpack_diploid(AsInt8(p[i]))])

\* GenotypeArray.from_packed(packed)
from_packed(p, ndim) ==
    IF ndim # 2 THEN Raise("ValueError")
    ELSE Return([i \in DOMAIN p |-> unpack_diploid(AsUint8(p[i]))])

\* ------------------------------------------------------------------------
\* State
\* ------------------------------------------------------------------------

VARIABLES
    gin,      \* the GenotypeArray at hand: [calls, ploidy], or NoArray
    bc,       \* the boundscheck argument of the last to_packed
    pk,       \* outcome of the last to_packed, or NoOutcome
    bin,      \* the packed array at hand: [bytes, ndim], or NoPacked
    un,       \* outcome of the last from_packed, or NoOutcome
    link,     \* how gin, pk, bin and un are related (see the actions)
    idx,      \* the keys of the SortedIndex instance at hand
    res,      \* the last index operation: [op, args, out]
    cached,   \* the _is_unique attribute of that instance: "unset" while
              \* the instance has none, else "True" or "False"
    midx,     \* the SortedMultiIndex at hand: [l1, l2]
    memo,     \* an earlier call kept for comparison: [op, args, out]
    orig      \* the caller's own sequences: [kind, l1, l2, shared]

codecVars == <<gin, bc, pk, bin, un, link>>

indexVars == <<idx, res, cached, midx, memo, orig>>

vars == <<gin, bc, pk, bin, un, link, idx, res, cached, midx, memo, orig>>

\* ------------------------------------------------------------------------
\* SpecCodec: genotype arrays and their packed form
\* ------------------------------------------------------------------------

\* allele values of the single-call arrays
Alleles == (-1 - BelowMissing)..MaxAllele

\* allele values of the multi-call arrays: around both limits of the
\* packable range, and one value that does not fit int8
EdgeAlleles == {-2, -1, 14, 15, 271}

Bytes == 0..255

\* the genotype arrays drawn: flattened (n_variants x n_samples) calls
GenotypeInputs ==
    {[calls |-> <<c>>, ploidy |-> 2] : c \in Alleles \X Alleles}
    \cup {[calls |-> cs, ploidy |-> 2] :
            cs \in SeqsOf(EdgeAlleles \X EdgeAlleles, 2, MaxCalls)}
    \cup {[calls |-> <<c>>, ploidy |-> 3] :
            c \in EdgeAlleles \X EdgeAlleles \X EdgeAlleles}

\* the packed arrays drawn: one byte, as a 2-d (1 x 1) or a 1-d array
PackedInputs == {[bytes |-> <<b>>, ndim |-> d] : b \in Bytes, d \in {1, 2}}

\* the input of the codec is at hand: either g = GenotypeArray(data), a
\* genotype array to pack, or packed = np.array(..., dtype='u1'), a packed
\* array to unpack; no SortedIndex operation takes place
InitCodec ==
    /\ \/ /\ gin \in GenotypeInputs
          /\ bin = NoPacked
          /\ link = "array"
       \/ /\ bin \in PackedInputs
          /\ gin = NoArray
          /\ link = "bytes"
    /\ bc = FALSE
    /\ pk = NoOutcome
    /\ un = NoOutcome
    /\ idx = <<>>
    /\ res = NoOp
    /\ cached = "unset"
    /\ midx = NoMulti
    /\ memo = NoOp
    /\ orig = NoCaller

\* packed = g.to_packed(boundscheck)
ToPacked ==
    /\ link = "array"
    /\ \E b \in BOOLEAN :
        /\ bc' = b
        /\ pk' = to_packed(gin.calls, gin.ploidy, b)
    /\ link' = "packed"
    /\ UNCHANGED <<gin, bin, un>>
    /\ UNCHANGED indexVars

\* g2 = GenotypeArray.from_packed(packed), packed being what to_packed returned
FromPackedOfPacked ==
    /\ link = "packed"
    /\ pk.status = "ok"
    /\ bin' = [bytes |-> pk.value, ndim |-> 2]
    /\ un' = from_packed(pk.value, 2)
    /\ link' = "packed_unpacked"
    /\ UNCHANGED <<gin, bc, pk>>
    /\ UNCHANGED indexVars

\* g = GenotypeArray.from_packed(packed)
FromPacked ==
    /\ link = "bytes"
    /\ un' = from_packed(bin.bytes, bin.ndim)
    /\ link' = "unpacked"
    /\ UNCHANGED <<gin, bc, pk, bin>>
    /\ UNCHANGED indexVars

\* packed2 = g.to_packed(boundscheck), g being what from_packed returned
ToPackedOfUnpacked ==
    /\ link = "unpacked"
    /\ un.status = "ok"
    /\ gin' = [calls |-> un.value, ploidy |-> 2]
    /\ \E b \in BOOLEAN :
        /\ bc' = b
        /\ pk' = to_packed(un.value, 2, b)
    /\ link' = "unpacked_packed"
    /\ UNCHANGED <<bin, un>>
    /\ UNCHANGED indexVars

NextCodec ==
    \/ ToPacked
    \/ FromPackedOfPacked
    \/ FromPacked
    \/ ToPackedOfUnpacked

SpecCodec == InitCodec /\ [][NextCodec]_vars

\* ------------------------------------------------------------------------
\* Properties of the codec (SpecCodec)
\* ------------------------------------------------------------------------

\* the packable allele values
Packable == -1..14

\* a diploid array all of whose alleles are packable
InRange(g) == g.ploidy = 2 /\ AllelesOf(g.calls) \subseteq Packable

\* C1: for all a1, a2 in -1..14, unpacking the byte that packing (a1, a2)
\* produced (to_packed, then from_packed) yields exactly (a1, a2).
C1_CodecRoundTrip ==
    (link = "packed_unpacked" /\ InRange(gin))
        => (un.status = "ok" /\ un.value = gin.calls)

C1_Witness ==
    /\ link = "packed_unpacked"
    /\ gin.calls = <<<<-1, 14>>>>
    /\ bin.bytes = <<254>>
    /\ un.value = <<<<-1, 14>>>>

\* C2: for every byte b in 0..255, packing the pair that unpacking b
\* produced (from_packed, then to_packed) yields b again.
C2_ByteRoundTrip ==
    link = "unpacked_packed"
        => (pk.status = "ok" /\ pk.value = bin.bytes)

C2_Witness ==
    /\ link = "unpacked_packed"
    /\ bin.bytes = <<143>>
    /\ un.value = <<<<8, -1>>>>
    /\ pk.value = <<143>>

\* the nibble the claim gives for an allele: 15 for the missing allele -1
ClaimedNibble(a) == IF a = -1 THEN 15 ELSE a

\* the packed byte the claim states for a few calls
PackLiterals ==
    {<<<<0, 0>>, 0>>, <<<<0, 1>>, 1>>, <<<<1, 1>>, 17>>,
     <<<<14, 14>>, 238>>, <<<<-1, -1>>, 255>>}

DocstringPairs ==
    {<<<<0, 0>>, 0>>, <<<<0, 1>>, 1>>, <<<<0, 2>>, 2>>,
     <<<<1, 1>>, 17>>, <<<<2, 2>>, 34>>, <<<<-1, -1>>, 239>>}

\* C4: the calls (0,0), (0,1), (0,2), (1,1), (2,2), (-1,-1) pack to the
\* bytes 0, 1, 2, 17, 34, 239 and from_packed decodes these bytes back to
\* exactly those calls.
C4_DocstringExamples ==
    \A d \in DocstringPairs :
        /\ (link = "packed" /\ gin = [calls |-> <<d[1]>>, ploidy |-> 2])
                => pk = Return(<<d[2]>>)
        /\ (link = "unpacked" /\ bin = [bytes |-> <<d[2]>>, ndim |-> 2])
                => un = Return(<<d[1]>>)

Keys == 0..MaxKey

\* keys asked for: every key of the index, and one below and one above
Probes == -1..(MaxKey + 1)

\* _check_input_data rejecting equal neighbours too (>= for >)
check_input_data_strict(obj) ==
    IF obj.ndim # 1 THEN "TypeError"
    ELSE IF \E i \in 1..(Len(obj.vals) - 1) : obj.vals[i] >= obj.vals[i + 1]
         THEN "ValueError"
    ELSE "ok"

\* SortedIndex._check_input_data(obj)
check_input_data(obj) ==
    IF obj.ndim # 1 THEN "TypeError"
    ELSE IF \E i \in 1..(Len(obj.vals) - 1) : obj.vals[i] > obj.vals[i + 1]
         THEN "ValueError"
    ELSE "ok"

\* SortedIndex.__new__(cls, data)
SortedIndex_new(data) ==
    LET chk == check_input_data(data)
    IN  IF chk # "ok" THEN Raise(chk) ELSE Return(data.vals)

\* np.searchsorted(a, v, side) for one key v: the binary search on the
\* positions lo..hi, left: first position whose key is not less than v,
\* right: first position whose key is greater than v
RECURSIVE binsearch(_, _, _, _, _)
binsearch(a, v, side, lo, hi) ==
    IF lo >= hi THEN lo
    ELSE LET mid == lo + ((hi - lo) \div 2)
             goRight == IF side = "left" THEN a[mid + 1] < v
                                         ELSE a[mid + 1] <= v
         IN  IF goRight THEN binsearch(a, v, side, mid + 1, hi)
                        ELSE binsearch(a, v, side, lo, mid)

searchsorted(a, v, side) == binsearch(a, v, side, 0, Len(a))

\* values returned by the lookups
IntLoc(p) == [kind |-> "int", pos |-> p]

SliceLoc(i, j) == [kind |-> "slice", start |-> i, stop |-> j]

KeyError(args) == [status |-> "KeyError", value |-> args]

\* locate_key returning the right insertion point for a single match
locate_key_right(self, key) ==
    LET left == searchsorted(self, key, "left")
        right == searchsorted(self, key, "right")
        diff == right - left
    IN  IF diff = 0 THEN KeyError(<<key>>)
        ELSE IF diff = 1 THEN Return(IntLoc(right))
        ELSE Return(SliceLoc(left, right))

\* SortedIndex.locate_key(key)
locate_key(self, key) ==
    LET left == searchsorted(self, key, "left")
        right == searchsorted(self, key, "right")
        diff == right - left
    IN  IF diff = 0 THEN KeyError(<<key>>)
        ELSE IF diff = 1 THEN Return(IntLoc(left))
        ELSE Return(SliceLoc(left, right))

\* SortedIndex.locate_range(start=None, stop=None)
locate_range(self, start, stop) ==
    LET start_index == IF start = None THEN 0
                       ELSE searchsorted(self, start, "left")
        stop_index == IF stop = None THEN Len(self)
                      ELSE searchsorted(self, stop, "right")
    IN  IF stop_index - start_index = 0 THEN KeyError(<<start, stop>>)
        ELSE Return(SliceLoc(start_index, stop_index))

\* slice(start, stop, step).indices(n), step # 0: the first position, the
\* position to stop before, both clipped as Python clips them
SliceBound(b, n, step, isStart) ==
    LET lower == IF step > 0 THEN 0 ELSE -1
        upper == IF step > 0 THEN n ELSE n - 1
    IN  IF b = None
        THEN (IF (step < 0) = isStart THEN upper ELSE lower)
        ELSE IF b < 0 THEN Max(b + n, lower)
        ELSE Min(b, upper)

\* the positions start, start + step, ... before stop
RECURSIVE SlicePositions(_, _, _)
SlicePositions(i, stop, step) ==
    IF (step > 0 /\ i >= stop) \/ (step < 0 /\ i <= stop) THEN <<>>
    ELSE <<i>> \o SlicePositions(i + step, stop, step)

\* the keys of a at the positions ps
Take(a, ps) == [k \in DOMAIN ps |-> a[ps[k] + 1]]

\* the positions at which mask is true, ascending
RECURSIVE Nonzero(_, _)
Nonzero(mask, k) ==
    IF k > Len(mask) THEN <<>>
    ELSE (IF mask[k] THEN <<k - 1>> ELSE <<>>) \o Nonzero(mask, k + 1)

\* SortedIndex.__getitem__(slice(start, stop, step)): a 1-d result stays a
\* SortedIndex, __array_finalize__ returning at once for a SortedIndex parent
getitem_slice(self, start, stop, step) ==
    LET n == Len(self)
        first == SliceBound(start, n, step, TRUE)
        last == SliceBound(stop, n, step, FALSE)
    IN  Return(Take(self, SlicePositions(first, last, step)))

\* SortedIndex.__getitem__(integer array): negative positions count from
\* the end, a position out of range raises IndexError
getitem_take(self, ps) ==
    LET n == Len(self)
    IN  IF \E k \in DOMAIN ps : ps[k] >= n \/ ps[k] < -n
        THEN Raise("IndexError")
        ELSE Return(Take(self,
                [k \in DOMAIN ps |-> IF ps[k] < 0 THEN ps[k] + n ELSE ps[k]]))

\* SortedIndex.__getitem__(boolean mask of the index's length)
getitem_mask(self, mask) == Return(Take(self, Nonzero(mask, 1)))

\* intersect_range without the except clause: the KeyError of locate_range
\* reaches the caller
intersect_range_raising(self, start, stop) ==
    LET loc == locate_range(self, start, stop)
    IN  IF loc.status = "KeyError" THEN loc
        ELSE getitem_slice(self, loc.value.start, loc.value.stop, 1)

\* SortedIndex.intersect_range(start=None, stop=None): self[loc] for the
\* slice locate_range returns, self[0:0] when it raises KeyError
intersect_range(self, start, stop) ==
    LET loc == locate_range(self, start, stop)
    IN  IF loc.status = "KeyError" THEN getitem_slice(self, 0, 0, 1)
        ELSE getitem_slice(self, loc.value.start, loc.value.stop, 1)

\* ------------------------------------------------------------------------
\* SpecIndex: SortedIndex construction, indexing and lookups
\* ------------------------------------------------------------------------

\* the data handed to the constructor: np.array(data) with its ndim and its
\* values in storage order; a scalar (0-d), a sequence (1-d), a 2 x 1 or
\* 1 x 2 nested sequence (2-d)
IndexInputs ==
    {[ndim |-> 1, vals |-> v] : v \in SeqsOf(Keys, 0, MaxLen)}
    \cup {[ndim |-> 0, vals |-> <<k>>] : k \in Keys}
    \cup {[ndim |-> 2, vals |-> v] : v \in SeqsOf(Keys, 2, 2)}

\* start and stop of a slice: omitted, from the front, from the end
SliceArgs == {None} \cup (-2)..2

SliceSteps == {-2, -1, 1, 2}

\* integer arrays used as a selection
TakeArgs == SeqsOf((-2)..2, 1, 2)

\* bounds of a range lookup
RangeArgs == {None} \cup Probes

\* the empty index, SortedIndex([]), and no operation performed on it; the
\* codec is not used
InitIndex ==
    /\ idx = <<>>
    /\ res = NoOp
    /\ cached = "unset"
    /\ midx = NoMulti
    /\ memo = NoOp
    /\ orig = NoCaller
    /\ gin = NoArray
    /\ bc = FALSE
    /\ pk = NoOutcome
    /\ bin = NoPacked
    /\ un = NoOutcome
    /\ link = "none"

\* idx = SortedIndex(data); idx is not rebound when the constructor raises
NewSortedIndex ==
    /\ \E d \in IndexInputs :
        LET out == SortedIndex_new(d)
        IN  /\ res' = Op("SortedIndex", d, out)
            /\ idx' = IF out.status = "ok" THEN out.value ELSE idx
            /\ cached' = IF out.status = "ok" THEN "unset" ELSE cached
    /\ UNCHANGED <<codecVars, midx, memo, orig>>

\* idx = idx[start:stop:step]
GetItemSlice ==
    /\ \E start \in SliceArgs, stop \in SliceArgs, step \in SliceSteps :
        LET out == getitem_slice(idx, start, stop, step)
        IN  /\ res' = Op("getitem_slice", <<start, stop, step>>, out)
            /\ idx' = out.value
    /\ cached' = "unset"
    /\ UNCHANGED <<codecVars, midx, memo, orig>>

\* idx = idx[[p, ...]]
GetItemTake ==
    /\ \E ps \in TakeArgs :
        LET out == getitem_take(idx, ps)
        IN  /\ res' = Op("getitem_take", ps, out)
            /\ idx' = IF out.status = "ok" THEN out.value ELSE idx
            /\ cached' = IF out.status = "ok" THEN "unset" ELSE cached
    /\ UNCHANGED <<codecVars, midx, memo, orig>>

\* idx = idx[mask]
GetItemMask ==
    /\ \E mask \in [1..Len(idx) -> BOOLEAN] :
        LET out == getitem_mask(idx, mask)
        IN  /\ res' = Op("getitem_mask", mask, out)
            /\ idx' = out.value
    /\ cached' = "unset"
    /\ UNCHANGED <<codecVars, midx, memo, orig>>

\* idx.locate_key(key)
LocateKey ==
    /\ \E key \in Probes :
        res' = Op("locate_key", <<key>>, locate_key(idx, key))
    /\ UNCHANGED <<idx, cached, midx, memo, orig>>
    /\ UNCHANGED codecVars

\* idx.locate_range(start, stop)
LocateRange ==
    /\ \E start \in RangeArgs, stop \in RangeArgs :
        res' = Op("locate_range", <<start, stop>>,
                  locate_range(idx, start, stop))
    /\ UNCHANGED <<idx, cached, midx, memo, orig>>
    /\ UNCHANGED codecVars

\* idx.intersect_range(start, stop): the sub-index is returned, idx stays
IntersectRange ==
    /\ \E start \in RangeArgs, stop \in RangeArgs :
        res' = Op("intersect_range", <<start, stop>>,
                  intersect_range(idx, start, stop))
    /\ UNCHANGED <<idx, cached, midx, memo, orig>>
    /\ UNCHANGED codecVars

NextIndex ==
    \/ NewSortedIndex
    \/ GetItemSlice
    \/ GetItemTake
    \/ GetItemMask
    \/ LocateKey
    \/ LocateRange
    \/ IntersectRange

SpecIndex == InitIndex /\ [][NextIndex]_vars

\* ------------------------------------------------------------------------
\* Properties of SortedIndex construction, indexing and lookups (SpecIndex)
\* ------------------------------------------------------------------------

\* no key is followed, anywhere later, by a smaller one
NonDecreasing(a) == \A i \in DOMAIN a, j \in DOMAIN a : i < j => a[i] <= a[j]

\* the Python positions of a holding a key that satisfies Test
PositionsWhere(a, Test(_)) == {p \in 0..(Len(a) - 1) : Test(a[p + 1])}

\* C7: SortedIndex construction succeeds iff the input is 1-dimensional and
\* non-decreasing (duplicates allowed); otherwise it raises and yields no
\* index; on success the index holds the input keys in the same order.
C7_Construction ==
    (res.op = "SortedIndex") =>
        LET d == res.args
            valid == d.ndim = 1 /\ NonDecreasing(d.vals)
        IN  /\ valid <=> res.out.status = "ok"
            /\ valid => (res.out.value = d.vals /\ idx = d.vals)
            /\ ~valid => /\ res.out.status \in {"TypeError", "ValueError"}
                         /\ res.out.value = NoValue

C7_Witness ==
    /\ res.op = "SortedIndex"
    /\ res.args = [ndim |-> 1, vals |-> <<1, 1, 2>>]
    /\ res.out.status = "ok"
    /\ idx = <<1, 1, 2>>

\* C8: every SortedIndex instance reachable by construction followed by
\* slicing, integer-array selection or boolean-mask filtering has
\* key[i] <= key[i+1] for all adjacent pairs.
C8_SortednessInvariant ==
    \A i \in 1..(Len(idx) - 1) : idx[i] <= idx[i + 1]

\* C9: on a sorted index locate_key(key) raises KeyError(key) iff no element
\* equals key, returns the single position iff exactly one element equals
\* key, and returns the half-open range of exactly the positions holding
\* key iff two or more elements equal key.
C9_LocateKey ==
    (res.op = "locate_key" /\ NonDecreasing(idx)) =>
        LET key == res.args[1]
            P == PositionsWhere(idx, LAMBDA k : k = key)
            out == res.out
        IN  /\ P = {} <=> out.status = "KeyError"
            /\ out.status = "KeyError" => out.value = <<key>>
            /\ Cardinality(P) = 1 <=>
                    (out.status = "ok" /\ out.value.kind = "int")
            /\ Cardinality(P) = 1 => P = {out.value.pos}
            /\ Cardinality(P) >= 2 <=>
                    (out.status = "ok" /\ out.value.kind = "slice")
            /\ Cardinality(P) >= 2 =>
                    P = out.value.start..(out.value.stop - 1)

C9_Witness ==
    /\ idx = <<0, 2, 2>>
    /\ res.op = "locate_key"
    /\ res.args = <<2>>
    /\ res.out = Return(SliceLoc(1, 3))

\* C10: locate_range(start, stop), when it returns, returns [i, j) with
\* 0 <= i < j <= len such that p is in [i, j) iff start <= index[p] <= stop,
\* an omitted bound being no bound.
C10_LocateRange ==
    (/\ res.op = "locate_range"
     /\ NonDecreasing(idx)
     /\ res.out.status = "ok") =>
        LET start == res.args[1]
            stop == res.args[2]
            i == res.out.value.start
            j == res.out.value.stop
            P == PositionsWhere(idx, LAMBDA k :
                    /\ (start # None => start <= k)
                    /\ (stop # None => k <= stop))
        IN  /\ 0 <= i /\ i < j /\ j <= Len(idx)
            /\ P = i..(j - 1)

\* the keys of a that satisfy Test, in the order of a
KeysWhere(a, Test(_)) ==
    LET RECURSIVE From(_)
        From(k) == IF k > Len(a) THEN <<>>
                   ELSE (IF Test(a[k]) THEN <<a[k]>> ELSE <<>>) \o From(k + 1)
    IN  From(1)

\* k lies in the inclusive range [start, stop], an omitted bound being none
InBounds(k, start, stop) ==
    /\ (start # None => start <= k)
    /\ (stop # None => k <= stop)

\* C11: on every sorted index (the empty one too) and for bounds in any
\* order, locate_range(start, stop) raises KeyError(start, stop) whenever no
\* key lies in [start, stop]; it never returns an empty range.
C11_LocateRangeEmpty ==
    (res.op = "locate_range" /\ NonDecreasing(idx)) =>
        LET start == res.args[1]
            stop == res.args[2]
            P == PositionsWhere(idx, LAMBDA k : InBounds(k, start, stop))
        IN  /\ P = {} => res.out = KeyError(<<start, stop>>)
            /\ res.out.status = "ok" =>
                    res.out.value.start < res.out.value.stop

\* C12: intersect_range(start, stop) never fails; it returns exactly the
\* keys k of self with start <= k <= stop, in order, and the empty index
\* when no key lies in the range.
C12_IntersectRange ==
    (res.op = "intersect_range" /\ NonDecreasing(idx)) =>
        LET start == res.args[1]
            stop == res.args[2]
        IN  /\ res.out.status = "ok"
            /\ res.out.value =
                    KeysWhere(idx, LAMBDA k : InBounds(k, start, stop))
            /\ (\A i \in DOMAIN idx : ~InBounds(idx[i], start, stop))
                    => res.out.value = <<>>

C12_Witness ==
    /\ idx = <<0, 1, 1>>
    /\ res.op = "intersect_range"
    /\ res.args = <<2, None>>
    /\ res.out = Return(<<>>)

\* ------------------------------------------------------------------------
\* SortedIndex: lookups of a second key sequence
\* ------------------------------------------------------------------------

\* ~np.any(self[:-1] == self[1:]): no two neighbours are equal
no_equal_neighbours(self) ==
    ~ \E i \in 1..(Len(self) - 1) : self[i] = self[i + 1]

\* SortedIndex.is_unique: the _is_unique attribute after the access, which
\* is also the value returned; computed when the instance has none yet
is_unique(self, attr) ==
    IF attr = "unset"
    THEN (IF no_equal_neighbours(self) THEN "True" ELSE "False")
    ELSE attr

\* position of key i of ar after ar.argsort(kind='mergesort'), a stable sort
StableRank(ar, i) ==
    Cardinality({j \in DOMAIN ar :
                    ar[j] < ar[i] \/ (ar[j] = ar[i] /\ j < i)})

\* the core of np.in1d: ar1 and ar2 are concatenated and sorted, a key is
\* flagged when the key after it in the sorted order is equal to it, and the
\* flags of the keys of ar1 are returned
in1d_flags(ar1, ar2) ==
    LET ar == ar1 \o ar2
    IN  [i \in 1..Len(ar1) |->
            \E j \in DOMAIN ar : /\ StableRank(ar, j) = StableRank(ar, i) + 1
                                 /\ ar[j] = ar[i]]

\* the keys of the set S in ascending order
RECURSIVE Ascending(_)
Ascending(S) ==
    IF S = {} THEN <<>>
    ELSE LET m == CHOOSE x \in S : \A y \in S : x <= y
         IN  <<m>> \o Ascending(S \ {m})

\* np.unique(ar): the distinct keys of ar, ascending
unique(ar) == Ascending({ar[i] : i \in DOMAIN ar})

\* np.unique(ar, return_inverse=True)[1]: where key i of ar is in unique(ar)
unique_inverse(ar, i) ==
    1 + Cardinality({v \in {ar[j] : j \in DOMAIN ar} : v < ar[i]})

\* np.in1d(ar1, ar2, assume_unique), on its sorting path: with assume_unique
\* the arrays are used as they are, without it they are first reduced to
\* their distinct keys and the flags mapped back
in1d(ar1, ar2, assume_unique) ==
    IF assume_unique THEN in1d_flags(ar1, ar2)
    ELSE LET ret == in1d_flags(unique(ar1), unique(ar2))
         IN  [i \in 1..Len(ar1) |-> ret[unique_inverse(ar1, i)]]

\* a 1-d array handed to SortedIndex(data, copy=False)
OneDim(v) == [ndim |-> 1, vals |-> v]

\* locate_intersection taking both sequences to be unique
locate_intersection_assuming(self, attr, other) ==
    LET o == SortedIndex_new(OneDim(other))
    IN  IF o.status # "ok" THEN o
        ELSE Return(<<in1d(self, o.value, TRUE), in1d(o.value, self, TRUE)>>)

\* locate_intersection taking self for unique as soon as its _is_unique
\* attribute exists, whatever it says
locate_intersection_cached(self, attr, other) ==
    LET o == SortedIndex_new(OneDim(other))
        assume_unique == /\ attr # "unset"
                         /\ is_unique(o.value, "unset") = "True"
    IN  IF o.status # "ok" THEN o
        ELSE Return(<<in1d(self, o.value, assume_unique),
                      in1d(o.value, self, assume_unique)>>)

\* SortedIndex.locate_intersection(other); attr is self's _is_unique
\* attribute before the call, other's instance is new and has none
locate_intersection(self, attr, other) ==
    LET o == SortedIndex_new(OneDim(other))
        assume_unique == /\ is_unique(self, attr) = "True"
                         /\ is_unique(o.value, "unset") = "True"
    IN  IF o.status # "ok" THEN o
        ELSE Return(<<in1d(self, o.value, assume_unique),
                      in1d(o.value, self, assume_unique)>>)

\* the keys of a at the positions where mask is true: a[mask],
\* np.compress(mask, a)
compress(mask, a) == Take(a, Nonzero(mask, 1))

\* locate_keys raising for unmatched keys whatever strict is
locate_keys_strict(self, attr, keys, strict) ==
    LET k == SortedIndex_new(OneDim(keys))
        both == locate_intersection(self, attr, k.value)
        missed == [i \in DOMAIN both.value[2] |-> ~both.value[2][i]]
    IN  IF k.status # "ok" THEN k
        ELSE IF both.status # "ok" THEN both
        ELSE IF \E i \in DOMAIN missed : missed[i]
             THEN KeyError(<<compress(missed, k.value)>>)
        ELSE Return(both.value[1])

\* SortedIndex.locate_keys(keys, strict=True)
locate_keys(self, attr, keys, strict) ==
    LET k == SortedIndex_new(OneDim(keys))
        both == locate_intersection(self, attr, k.value)
        missed == [i \in DOMAIN both.value[2] |-> ~both.value[2][i]]
    IN  IF k.status # "ok" THEN k
        ELSE IF both.status # "ok" THEN both
        ELSE IF strict /\ \E i \in DOMAIN missed : missed[i]
             THEN KeyError(<<compress(missed, k.value)>>)
        ELSE Return(both.value[1])

\* intersect calling locate_keys with its default, strict=True
intersect_strict(self, attr, other) ==
    LET loc == locate_keys(self, attr, other, TRUE)
    IN  IF loc.status # "ok" THEN loc
        ELSE Return(compress(loc.value, self))

\* SortedIndex.intersect(other)
intersect(self, attr, other) ==
    LET loc == locate_keys(self, attr, other, FALSE)
    IN  IF loc.status # "ok" THEN loc
        ELSE Return(compress(loc.value, self))

\* ------------------------------------------------------------------------
\* SpecIntersect: a constructed SortedIndex and lookups of a second sequence
\* ------------------------------------------------------------------------

\* the keys of the instances SortedIndex(data) returns for 1-d data
ConstructedIndexes ==
    {SortedIndex_new(OneDim(v)).value :
        v \in {w \in SeqsOf(Keys, 0, MaxLen) :
                    SortedIndex_new(OneDim(w)).status = "ok"}}

\* the second key sequence, other or keys: any 1-d sequence
OtherArgs == SeqsOf(Keys, 0, MaxLen)

\* idx = SortedIndex(data) has returned, nothing has been asked of idx
InitIntersect ==
    /\ idx \in ConstructedIndexes
    /\ res = NoOp
    /\ cached = "unset"
    /\ midx = NoMulti
    /\ memo = NoOp
    /\ orig = NoCaller
    /\ gin = NoArray
    /\ bc = FALSE
    /\ pk = NoOutcome
    /\ bin = NoPacked
    /\ un = NoOutcome
    /\ link = "none"

\* idx.is_unique
IsUnique ==
    /\ res.op = "none"
    /\ cached' = is_unique(idx, cached)
    /\ res' = Op("is_unique", <<>>, Return(<<cached'>>))
    /\ UNCHANGED <<idx, midx, memo, orig, codecVars>>

\* the _is_unique attribute of idx after a call that reads idx.is_unique
\* unless the call raised before reading it
AttrAfter(out) ==
    IF out.status \in {"TypeError", "ValueError"} THEN cached
    ELSE is_unique(idx, cached)

\* idx.locate_intersection(other)
LocateIntersection ==
    /\ res.op \in {"none", "is_unique"}
    /\ \E other \in OtherArgs :
        LET out == locate_intersection(idx, cached, other)
        IN  /\ res' = Op("locate_intersection", <<other>>, out)
            /\ cached' = AttrAfter(out)
    /\ UNCHANGED <<idx, midx, memo, orig, codecVars>>

\* idx.locate_keys(keys, strict)
LocateKeys ==
    /\ res.op \in {"none", "is_unique"}
    /\ \E keys \in OtherArgs, strict \in BOOLEAN :
        LET out == locate_keys(idx, cached, keys, strict)
        IN  /\ res' = Op("locate_keys", <<keys, strict>>, out)
            /\ cached' = AttrAfter(out)
    /\ UNCHANGED <<idx, midx, memo, orig, codecVars>>

\* idx.intersect(other): the sub-index is returned, idx stays
Intersect ==
    /\ res.op \in {"none", "is_unique"}
    /\ \E other \in OtherArgs :
        LET out == intersect(idx, cached, other)
        IN  /\ res' = Op("intersect", <<other>>, out)
            /\ cached' = AttrAfter(out)
    /\ UNCHANGED <<idx, midx, memo, orig, codecVars>>

NextIntersect ==
    \/ IsUnique
    \/ LocateIntersection
    \/ LocateKeys
    \/ Intersect

SpecIntersect == InitIntersect /\ [][NextIntersect]_vars


\* ------------------------------------------------------------------------
\* Properties of the lookups of a second key sequence (SpecIntersect)
\* ------------------------------------------------------------------------

\* key k occurs in the sequence a
Occurs(k, a) == \E i \in DOMAIN a : a[i] = k

\* the mask over a that is true exactly at the keys occurring in b
MemberMask(a, b) == [i \in 1..Len(a) |-> Occurs(a[i], b)]

\* C13: locate_intersection(other) is a membership test for sorted self and
\* other, with or without duplicates: mask_self[i] iff self[i] occurs in
\* other, mask_other[j] iff other[j] occurs in self, so the selected keys of
\* both sides form the same set.
C13_LocateIntersection ==
    (res.op = "locate_intersection" /\ NonDecreasing(res.args[1])) =>
        LET other == res.args[1]
        IN  /\ res.out.status = "ok"
            /\ res.out.value[1] = MemberMask(idx, other)
            /\ res.out.value[2] = MemberMask(other, idx)
            /\ {idx[i] : i \in {n \in DOMAIN idx : res.out.value[1][n]}}
                = {other[j] : j \in {n \in DOMAIN other : res.out.value[2][n]}}

C13_Witness ==
    /\ idx = <<1, 1, 2>>
    /\ cached = "False"
    /\ res.op = "locate_intersection"
    /\ res.args = <<<<0, 1, 1>>>>
    /\ res.out = Return(<<<<TRUE, TRUE, FALSE>>, <<FALSE, TRUE, TRUE>>>>)

\* C14: locate_keys(keys, strict) returns the self-mask of
\* locate_intersection(keys); with strict it raises KeyError carrying
\* exactly the requested keys without a match iff there is such a key;
\* without strict it never raises for unmatched keys.
C14_LocateKeys ==
    (res.op = "locate_keys" /\ NonDecreasing(res.args[1])) =>
        LET keys == res.args[1]
            strict == res.args[2]
            unmatched == KeysWhere(keys, LAMBDA k : ~Occurs(k, idx))
        IN  /\ (strict /\ unmatched # <<>>) <=> res.out.status = "KeyError"
            /\ res.out.status = "KeyError" => res.out.value = <<unmatched>>
            /\ res.out.status # "KeyError" =>
                    res.out = Return(MemberMask(idx, keys))

C14_Witness ==
    /\ idx = <<0, 1, 1>>
    /\ res.op = "locate_keys"
    /\ res.args = <<<<1, 2, 2>>, TRUE>>
    /\ res.out = KeyError(<<<<2, 2>>>>)

\* C15: intersect(other) returns the keys of self that occur in other, in
\* the order and with the multiplicity they have in self; keys of other
\* absent from self raise nothing; the result is non-decreasing.
C15_Intersect ==
    (res.op = "intersect" /\ NonDecreasing(res.args[1])) =>
        LET other == res.args[1]
        IN  /\ res.out.status = "ok"
            /\ res.out.value = KeysWhere(idx, LAMBDA k : Occurs(k, other))
            /\ NonDecreasing(res.out.value)

C15_Witness ==
    /\ idx = <<0, 1, 1>>
    /\ res.op = "intersect"
    /\ res.args = <<<<1, 2>>>>
    /\ res.out = Return(<<1, 1>>)

\* ------------------------------------------------------------------------
\* SortedIndex: lookups of several ranges
\* ------------------------------------------------------------------------

\* np.searchsorted(self, keys, side) for an array of keys
searchsorted_each(self, keys, side) ==
    [r \in DOMAIN keys |-> searchsorted(self, keys[r], side)]

\* locate_intersection_ranges searching the stops with side='left' too
locate_intersection_ranges_left(self, starts, stops) ==
    IF Len(starts) # Len(stops) THEN Raise("AssertionError")
    ELSE LET start_indices == searchsorted_each(self, starts, "left")
             stop_indices == searchsorted_each(self, stops, "left")
             loc_ranges == [r \in DOMAIN starts |->
                                start_indices[r] < stop_indices[r]]
             loc == [p \in 1..Len(self) |->
                        \E r \in DOMAIN starts :
                            /\ loc_ranges[r]
                            /\ start_indices[r] <= p - 1
                            /\ p - 1 < stop_indices[r]]
         IN  Return(<<loc, loc_ranges>>)

\* SortedIndex.locate_intersection_ranges(starts, stops): starts and stops
\* are 1-d (np.asarray of the arguments); loc[i:j] = True for the span of
\* every range that has one
locate_intersection_ranges(self, starts, stops) ==
    IF Len(starts) # Len(stops) THEN Raise("AssertionError")
    ELSE LET start_indices == searchsorted_each(self, starts, "left")
             stop_indices == searchsorted_each(self, stops, "right")
             loc_ranges == [r \in DOMAIN starts |->
                                start_indices[r] < stop_indices[r]]
             loc == [p \in 1..Len(self) |->
                        \E r \in DOMAIN starts :
                            /\ loc_ranges[r]
                            /\ start_indices[r] <= p - 1
                            /\ p - 1 < stop_indices[r]]
         IN  Return(<<loc, loc_ranges>>)

\* the negation of a mask: ~found
Not(mask) == [i \in DOMAIN mask |-> ~mask[i]]

\* SortedIndex.locate_ranges(starts, stops, strict=True). starts and stops
\* are indexed as the caller passed them (only locate_intersection_ranges
\* converts its own copies): an ndarray takes the boolean mask ~found, a
\* Python list indexed by a boolean array raises TypeError
locate_ranges(self, kind, starts, stops, strict) ==
    LET both == locate_intersection_ranges(self, starts, stops)
        missed == Not(both.value[2])
    IN  IF both.status # "ok" THEN both
        ELSE IF strict /\ \E r \in DOMAIN missed : missed[r]
             THEN (IF kind = "list" THEN Raise("TypeError")
                   ELSE KeyError(<<compress(missed, starts),
                                   compress(missed, stops)>>))
        ELSE Return(both.value[1])

\* intersect_ranges calling locate_ranges with its default, strict=True
intersect_ranges_strict(self, kind, starts, stops) ==
    LET loc == locate_ranges(self, kind, starts, stops, TRUE)
    IN  IF loc.status # "ok" THEN loc
        ELSE Return(compress(loc.value, self))

\* SortedIndex.intersect_ranges(starts, stops)
intersect_ranges(self, kind, starts, stops) ==
    LET loc == locate_ranges(self, kind, starts, stops, FALSE)
    IN  IF loc.status # "ok" THEN loc
        ELSE Return(compress(loc.value, self))

\* ------------------------------------------------------------------------
\* SpecRanges: a constructed SortedIndex and lookups of several ranges
\* ------------------------------------------------------------------------

\* first and second component of a sequence of pairs
Firsts(pairs) == [r \in DOMAIN pairs |-> pairs[r][1]]

Seconds(pairs) == [r \in DOMAIN pairs |-> pairs[r][2]]

\* starts and stops handed to the lookups: up to MaxRanges parallel ranges
\* in any order, overlapping or not, with bounds the right or the wrong way
\* round; and starts without stops
RangesArgs ==
    {[starts |-> Firsts(pairs), stops |-> Seconds(pairs)] :
        pairs \in SeqsOf(Probes \X Probes, 0, MaxRanges)}
    \cup {[starts |-> <<b>>, stops |-> <<>>] : b \in Probes}

\* what the caller passes as starts and stops (array_like)
ArrayKinds == {"ndarray", "list"}

\* idx = SortedIndex(data) has returned, nothing has been asked of idx
InitRanges ==
    /\ idx \in ConstructedIndexes
    /\ res = NoOp
    /\ cached = "unset"
    /\ midx = NoMulti
    /\ memo = NoOp
    /\ orig = NoCaller
    /\ gin = NoArray
    /\ bc = FALSE
    /\ pk = NoOutcome
    /\ bin = NoPacked
    /\ un = NoOutcome
    /\ link = "none"

\* idx.locate_intersection_ranges(starts, stops)
LocateIntersectionRanges ==
    /\ res.op = "none"
    /\ \E a \in RangesArgs :
        res' = Op("locate_intersection_ranges", <<a.starts, a.stops>>,
                  locate_intersection_ranges(idx, a.starts, a.stops))
    /\ UNCHANGED <<idx, cached, midx, memo, orig, codecVars>>

\* idx.locate_ranges(starts, stops, strict)
LocateRanges ==
    /\ res.op = "none"
    /\ \E a \in RangesArgs, kind \in ArrayKinds, strict \in BOOLEAN :
        res' = Op("locate_ranges", <<a.starts, a.stops, strict, kind>>,
                  locate_ranges(idx, kind, a.starts, a.stops, strict))
    /\ UNCHANGED <<idx, cached, midx, memo, orig, codecVars>>

\* idx.intersect_ranges(starts, stops): the sub-index is returned, idx stays
IntersectRanges ==
    /\ res.op = "none"
    /\ \E a \in RangesArgs, kind \in ArrayKinds :
        res' = Op("intersect_ranges", <<a.starts, a.stops, kind>>,
                  intersect_ranges(idx, kind, a.starts, a.stops))
    /\ UNCHANGED <<idx, cached, midx, memo, orig, codecVars>>

NextRanges ==
    \/ LocateIntersectionRanges
    \/ LocateRanges
    \/ IntersectRanges

SpecRanges == InitRanges /\ [][NextRanges]_vars

\* ------------------------------------------------------------------------
\* Properties of the lookups of several ranges (SpecRanges)
\* ------------------------------------------------------------------------

\* key k lies in the inclusive range r of starts, stops
InRangeOf(k, starts, stops, r) == starts[r] <= k /\ k <= stops[r]

\* the mask over self: keys lying in at least one range
CoveredMask(self, starts, stops) ==
    [i \in 1..Len(self) |->
        \E r \in DOMAIN starts : InRangeOf(self[i], starts, stops, r)]

\* the mask over the ranges: ranges holding at least one key of self
HitMask(self, starts, stops) ==
    [r \in 1..Len(starts) |->
        \E i \in DOMAIN self : InRangeOf(self[i], starts, stops, r)]

\* C16: locate_intersection_ranges(starts, stops) for N parallel inclusive
\* ranges: mask_self[i] iff some range holds self[i], mask_ranges[r] iff
\* range r holds some key of self; overlapping ranges mark a key once.
C16_LocateIntersectionRanges ==
    (/\ res.op = "locate_intersection_ranges"
     /\ Len(res.args[1]) = Len(res.args[2])) =>
        res.out = Return(<<CoveredMask(idx, res.args[1], res.args[2]),
                           HitMask(idx, res.args[1], res.args[2])>>)

C16_Witness ==
    /\ idx = <<0, 1, 2>>
    /\ res.op = "locate_intersection_ranges"
    /\ res.args = <<<<0, 1>>, <<1, 1>>>>
    /\ res.out = Return(<<<<TRUE, TRUE, FALSE>>, <<TRUE, TRUE>>>>)

\* C17: locate_ranges(starts, stops, strict) with strict raises KeyError
\* carrying exactly the (start, stop) pairs of the ranges holding no key of
\* self iff there is such a range; otherwise, and always without strict, it
\* returns the self-mask of locate_intersection_ranges.
C17_LocateRanges ==
    (res.op = "locate_ranges" /\ Len(res.args[1]) = Len(res.args[2])) =>
        LET starts == res.args[1]
            stops == res.args[2]
            strict == res.args[3]
            empty == Not(HitMask(idx, starts, stops))
            anyEmpty == \E r \in DOMAIN empty : empty[r]
        IN  /\ (strict /\ anyEmpty) <=> res.out.status = "KeyError"
            /\ res.out.status = "KeyError" =>
                    res.out.value = <<compress(empty, starts),
                                      compress(empty, stops)>>
            /\ ~(strict /\ anyEmpty) =>
                    res.out = Return(CoveredMask(idx, starts, stops))

\* C18: intersect_ranges(starts, stops) never fails for parallel range
\* arrays; it returns exactly the keys of self lying in at least one range,
\* in order, and the empty index when no range holds a key.
C18_IntersectRanges ==
    (res.op = "intersect_ranges" /\ Len(res.args[1]) = Len(res.args[2])) =>
        LET starts == res.args[1]
            stops == res.args[2]
        IN  /\ res.out.status = "ok"
            /\ res.out.value = KeysWhere(idx, LAMBDA k :
                    \E r \in DOMAIN starts : InRangeOf(k, starts, stops, r))
            /\ (\A r \in DOMAIN starts : ~HitMask(idx, starts, stops)[r])
                    => res.out.value = <<>>

C18_Witness ==
    /\ idx = <<0, 1, 2>>
    /\ res.op = "intersect_ranges"
    /\ res.args = <<<<-1, 2>>, <<0, 3>>, "list">>
    /\ res.out = Return(<<0, 2>>)

\* ------------------------------------------------------------------------
\* SortedMultiIndex: two aligned key sequences, l1 sorted
\* ------------------------------------------------------------------------

\* allel.util.check_arrays_aligned(a, b): the two arrays have one length
check_arrays_aligned(a, b) ==
    IF Len(a) # Len(b) THEN "ValueError" ELSE "ok"

\* SortedMultiIndex.__init__(l1, l2): l1 becomes a SortedIndex, l2 a 1-d
\* array (asarray_ndim leaves a 1-d array as it is) checked for its length
\* only
SortedMultiIndex_init(l1, l2) ==
    LET first == SortedIndex_new(l1)
    IN  IF first.status # "ok" THEN first
        ELSE IF check_arrays_aligned(first.value, l2) # "ok"
             THEN Raise(check_arrays_aligned(first.value, l2))
        ELSE Return([l1 |-> first.value, l2 |-> l2])

\* self.l2[loc1] for the slice loc1 that the lookup of an outer key returns
\* (0 <= start < stop <= len)
l2_of(self, loc1) == SubSeq(self.l2, loc1.start + 1, loc1.stop)

\* SortedMultiIndex.locate_key(k1, k2=None)
SortedMultiIndex_locate_key(self, k1, k2) ==
    LET loc1 == locate_key(self.l1, k1)
    IN  IF loc1.status # "ok" THEN loc1
        ELSE IF k2 = None THEN loc1
        ELSE IF loc1.value.kind = "slice"
             THEN LET offset == loc1.value.start
                      sub == SortedIndex_new(OneDim(l2_of(self, loc1.value)))
                      loc2 == IF sub.status # "ok" THEN sub
                              ELSE locate_key(sub.value, k2)
                  IN  IF loc2.status = "KeyError" THEN KeyError(<<k1, k2>>)
                      ELSE IF loc2.status # "ok" THEN loc2
                      ELSE IF loc2.value.kind = "slice"
                           THEN Return(SliceLoc(offset + loc2.value.start,
                                                offset + loc2.value.stop))
                      ELSE Return(IntLoc(offset + loc2.value.pos))
        ELSE LET v == self.l2[loc1.value.pos + 1]
             IN  IF v = k2 THEN loc1 ELSE KeyError(<<k1, k2>>)

\* the interpreters the module runs on (from __future__ import ...):
\* Python 2 orders None below every number, Python 3 refuses to order it
Builds == {"py2", "py3"}

\* a <= b where a or b may be None: "TypeError" where the build refuses
LessEq(a, b, build) ==
    IF a # None /\ b # None THEN (IF a <= b THEN "True" ELSE "False")
    ELSE IF build = "py3" THEN "TypeError"
    ELSE IF a = None THEN "True"
    ELSE "False"

\* the chained comparison start <= v <= stop: the second comparison is
\* made only if the first is true
Between(start, v, stop, build) ==
    IF LessEq(start, v, build) # "True" THEN LessEq(start, v, build)
    ELSE LessEq(v, stop, build)

\* SortedMultiIndex.locate_range(k1, start=None, stop=None)
SortedMultiIndex_locate_range(self, k1, start, stop, build) ==
    LET loc1 == locate_key(self.l1, k1)
        inGroup ==
            LET offset == loc1.value.start
                sub == SortedIndex_new(OneDim(l2_of(self, loc1.value)))
                loc2 == IF sub.status # "ok" THEN sub
                        ELSE locate_range(sub.value, start, stop)
            IN  IF loc2.status = "KeyError"
                THEN KeyError(<<k1, start, stop>>)
                ELSE IF loc2.status # "ok" THEN loc2
                ELSE Return(SliceLoc(offset + loc2.value.start,
                                     offset + loc2.value.stop))
        atSingle ==
            LET within == Between(start, self.l2[loc1.value.pos + 1], stop,
                                  build)
            IN  IF within = "TypeError" THEN Raise("TypeError")
                ELSE IF within = "True" THEN loc1
                ELSE KeyError(<<k1, start, stop>>)
        loc == IF start = None /\ stop = None THEN loc1
               ELSE IF loc1.value.kind = "slice" THEN inGroup
               ELSE atSingle
    IN  IF loc1.status # "ok" THEN loc1
        ELSE IF loc.status # "ok" THEN loc
        ELSE IF loc.value.kind # "slice"
             THEN Return(SliceLoc(loc.value.pos, loc.value.pos + 1))
        ELSE loc

\* ------------------------------------------------------------------------
\* SpecMulti: a constructed SortedMultiIndex and its lookups
\* ------------------------------------------------------------------------

\* every pair of arguments the constructor is given
MultiInputs == IndexInputs \X SeqsOf(Keys, 0, MaxLen)

\* the instances the constructor returns
ConstructedMultiIndexes ==
    {SortedMultiIndex_init(a[1], a[2]).value :
        a \in {b \in MultiInputs :
                    SortedMultiIndex_init(b[1], b[2]).status = "ok"}}

\* midx = SortedMultiIndex(l1, l2) has returned, nothing has been asked
InitMulti ==
    /\ midx \in ConstructedMultiIndexes
    /\ memo = NoOp
    /\ orig = NoCaller
    /\ res = NoOp
    /\ idx = <<>>
    /\ cached = "unset"
    /\ gin = NoArray
    /\ bc = FALSE
    /\ pk = NoOutcome
    /\ bin = NoPacked
    /\ un = NoOutcome
    /\ link = "none"

\* midx.locate_key(k1, k2)
MultiLocateKey ==
    /\ res.op = "none"
    /\ \E k1 \in Probes, k2 \in RangeArgs :
        res' = Op("SortedMultiIndex.locate_key", <<k1, k2>>,
                  SortedMultiIndex_locate_key(midx, k1, k2))
    /\ UNCHANGED <<idx, cached, midx, memo, orig, codecVars>>

\* midx.locate_range(k1, start, stop)
MultiLocateRange ==
    /\ res.op = "none"
    /\ \E k1 \in Probes, start \in RangeArgs, stop \in RangeArgs,
          build \in Builds :
        res' = Op("SortedMultiIndex.locate_range", <<k1, start, stop>>,
                  SortedMultiIndex_locate_range(midx, k1, start, stop, build))
    /\ UNCHANGED <<idx, cached, midx, memo, orig, codecVars>>

NextMulti ==
    \/ MultiLocateKey
    \/ MultiLocateRange

SpecMulti == InitMulti /\ [][NextMulti]_vars

\* ------------------------------------------------------------------------
\* Properties of the SortedMultiIndex lookups (SpecMulti)
\* ------------------------------------------------------------------------

\* the positions (counted from 1) of self whose outer key is k1 and whose
\* inner key passes the test
MultiPositions(self, k1, Test(_)) ==
    {p \in 1..Len(self.l1) : self.l1[p] = k1 /\ Test(self.l2[p])}

\* the location designates exactly the positions ps: one position as an
\* integer, several as a half-open range
Designates(loc, ps) ==
    \/ loc.kind = "int" /\ ps = {loc.pos + 1}
    \/ loc.kind = "slice" /\ Cardinality(ps) > 1
                          /\ ps = (loc.start + 1)..loc.stop

\* C19: SortedMultiIndex.locate_key(k1, k2): without k2 the result is
\* l1.locate_key(k1); with k2 it designates, in global positions, exactly
\* the positions whose outer key is k1 and inner key is k2, and if there is
\* none while k1 occurs it raises KeyError(k1, k2).
C19_MultiLocateKey ==
    res.op = "SortedMultiIndex.locate_key" =>
        LET k1 == res.args[1]
            k2 == res.args[2]
            ps == MultiPositions(midx, k1, LAMBDA v : v = k2)
        IN  /\ k2 = None => res.out = locate_key(midx.l1, k1)
            /\ (k2 # None /\ ps # {}) =>
                    /\ res.out.status = "ok"
                    /\ Designates(res.out.value, ps)
            /\ (k2 # None /\ ps = {} /\ Occurs(k1, midx.l1)) =>
                    res.out = KeyError(<<k1, k2>>)

\* C20: SortedMultiIndex.locate_range(k1, start, stop) always returns a
\* range, which holds exactly the positions whose outer key is k1 and whose
\* inner key lies in [start, stop]; it raises KeyError(k1, start, stop) iff
\* k1 occurs and there is no such position.
C20_MultiLocateRange ==
    (/\ res.op = "SortedMultiIndex.locate_range"
     /\ res.args[2] # None
     /\ res.args[3] # None) =>
        LET k1 == res.args[1]
            start == res.args[2]
            stop == res.args[3]
            ps == MultiPositions(midx, k1,
                                 LAMBDA v : InBounds(v, start, stop))
        IN  /\ res.out.status = "ok" =>
                    /\ res.out.value.kind = "slice"
                    /\ ps = (res.out.value.start + 1)..res.out.value.stop
            /\ res.out = KeyError(<<k1, start, stop>>)
                    <=> (Occurs(k1, midx.l1) /\ ps = {})
            /\ ps # {} => res.out.status = "ok"

\* C21: SortedMultiIndex.locate_range(k1, start, stop) with exactly one of
\* start and stop omitted takes the omitted bound as unbounded, for an outer
\* key with several positions and with one: it returns the range of the
\* positions of outer key k1 whose inner key satisfies the bound given, or
\* raises KeyError(k1, start, stop) if there is none.
C21_MultiLocateRangeOpen ==
    (/\ res.op = "SortedMultiIndex.locate_range"
     /\ (res.args[2] = None) # (res.args[3] = None)
     /\ Occurs(res.args[1], midx.l1)) =>
        LET k1 == res.args[1]
            start == res.args[2]
            stop == res.args[3]
            ps == MultiPositions(midx, k1,
                                 LAMBDA v : InBounds(v, start, stop))
        IN  IF ps = {} THEN res.out = KeyError(<<k1, start, stop>>)
            ELSE /\ res.out.status = "ok"
                 /\ res.out.value.kind = "slice"
                 /\ ps = (res.out.value.start + 1)..res.out.value.stop

\* C22: every constructed SortedMultiIndex has non-decreasing outer keys and
\* inner keys that are non-decreasing within each run of equal outer keys.
C22_MultiInvariant ==
    /\ Len(midx.l1) = Len(midx.l2)
    /\ NonDecreasing(midx.l1)
    /\ \A p \in 1..(Len(midx.l1) - 1) :
            midx.l1[p] = midx.l1[p + 1] => midx.l2[p] <= midx.l2[p + 1]

\* C29: on a constructed SortedMultiIndex, locate_key and locate_range
\* return a location or raise KeyError, never an error of another kind.
C29_MultiErrorKind ==
    res.op \in {"SortedMultiIndex.locate_key",
                "SortedMultiIndex.locate_range"} =>
        res.out.status \in {"ok", "KeyError"}

\* ------------------------------------------------------------------------
\* SpecUnique: is_unique read on an index and on the indexes derived from it
\* ------------------------------------------------------------------------

\* __array_finalize__ handing the parent's _is_unique on to the new instance
array_finalize_inherit(attr) == attr

\* the _is_unique attribute of an instance made from a SortedIndex template:
\* __array_finalize__ returns without setting any attribute
array_finalize(attr) == "unset"

\* idx is a constructed SortedIndex, is_unique has not been read
InitUnique ==
    /\ idx \in ConstructedIndexes
    /\ res = NoOp
    /\ cached = "unset"
    /\ midx = NoMulti
    /\ memo = NoOp
    /\ orig = NoCaller
    /\ gin = NoArray
    /\ bc = FALSE
    /\ pk = NoOutcome
    /\ bin = NoPacked
    /\ un = NoOutcome
    /\ link = "none"

\* idx = idx[start:stop:step]; the record keeps the parent's _is_unique
SliceOf ==
    /\ \E start \in SliceArgs, stop \in SliceArgs, step \in SliceSteps :
        LET out == getitem_slice(idx, start, stop, step)
        IN  /\ res' = Op("slice_of", <<cached>>, out)
            /\ idx' = out.value
    /\ cached' = array_finalize(cached)
    /\ UNCHANGED <<codecVars, midx, memo, orig>>

\* idx = idx[mask]; the record keeps the parent's _is_unique
FilterOf ==
    /\ \E mask \in [1..Len(idx) -> BOOLEAN] :
        LET out == getitem_mask(idx, mask)
        IN  /\ res' = Op("filter_of", <<cached>>, out)
            /\ idx' = out.value
    /\ cached' = array_finalize(cached)
    /\ UNCHANGED <<codecVars, midx, memo, orig>>

\* idx.is_unique; the record keeps what idx was derived by, if it just was
ReadIsUnique ==
    /\ cached' = is_unique(idx, cached)
    /\ res' = Op("is_unique",
                 IF res.op \in {"slice_of", "filter_of"}
                 THEN <<res.op>> \o res.args ELSE <<"same">>,
                 Return(<<cached'>>))
    /\ UNCHANGED <<idx, midx, memo, orig, codecVars>>

NextUnique ==
    \/ SliceOf
    \/ FilterOf
    \/ ReadIsUnique

SpecUnique == InitUnique /\ [][NextUnique]_vars

\* ------------------------------------------------------------------------
\* Properties of is_unique (SpecUnique)
\* ------------------------------------------------------------------------

\* C23: on every SortedIndex instance, one derived by slicing or filtering
\* a parent whose is_unique is cached included, is_unique is true iff no
\* two adjacent keys of the instance are equal; an index of length 0 or 1
\* is unique.
C23_IsUnique ==
    res.op = "is_unique" =>
        LET adjacentEqual == \E i \in 1..(Len(idx) - 1) : idx[i] = idx[i + 1]
        IN  /\ res.out = Return(<<IF adjacentEqual THEN "False" ELSE "True">>)
            /\ Len(idx) <= 1 => res.out = Return(<<"True">>)

C23_Witness ==
    /\ res.op = "is_unique"
    /\ res.args = <<"slice_of", "False">>
    /\ idx = <<0, 1>>
    /\ res.out = Return(<<"True">>)

\* ------------------------------------------------------------------------
\* SpecRepeat: one lookup made, other lookups made, the first one repeated
\* ------------------------------------------------------------------------

\* a call of a lookup: its name and its arguments
Call(op, args) == [op |-> op, args |-> args]

\* the second key sequences and the range lists of the repeated lookups
RepeatOthers == SeqsOf(Keys, 0, 2)

RepeatRanges == {a \in RangesArgs : Len(a.starts) <= 1}

\* the lookups of a SortedIndex, one set of calls for each
IndexCalls ==
    << {Call("locate_key", <<k>>) : k \in Probes},
       {Call("locate_range", <<a, b>>) : a \in RangeArgs, b \in RangeArgs},
       {Call("locate_intersection", <<o>>) : o \in RepeatOthers},
       {Call("locate_keys", <<o, strict>>) :
            o \in RepeatOthers, strict \in BOOLEAN},
       {Call("locate_ranges", <<a.starts, a.stops, strict>>) :
            a \in RepeatRanges, strict \in BOOLEAN} >>

\* the lookups of a SortedMultiIndex, on either interpreter
MultiCalls ==
    << {Call("SortedMultiIndex.locate_key", <<k1, k2>>) :
            k1 \in Probes, k2 \in RangeArgs},
       {Call("SortedMultiIndex.locate_range", <<k1, a, b, build>>) :
            k1 \in Probes, a \in RangeArgs, b \in RangeArgs,
            build \in Builds} >>

\* the outcome of the call on the index self, whose _is_unique attribute is
\* attr, or on the multi-index multi
perform(self, attr, multi, call) ==
    LET a == call.args
    IN  CASE call.op = "locate_key" -> locate_key(self, a[1])
          [] call.op = "locate_range" -> locate_range(self, a[1], a[2])
          [] call.op = "locate_intersection" ->
                locate_intersection(self, attr, a[1])
          [] call.op = "locate_keys" -> locate_keys(self, attr, a[1], a[2])
          [] call.op = "locate_ranges" ->
                locate_ranges(self, "ndarray", a[1], a[2], a[3])
          [] call.op = "SortedMultiIndex.locate_key" ->
                SortedMultiIndex_locate_key(multi, a[1], a[2])
          [] call.op = "SortedMultiIndex.locate_range" ->
                SortedMultiIndex_locate_range(multi, a[1], a[2], a[3], a[4])

\* the _is_unique attribute of self after the call: locate_intersection and
\* locate_keys read self.is_unique once other is accepted
attr_after(self, attr, call, out) ==
    IF /\ call.op \in {"locate_intersection", "locate_keys"}
       /\ out.status \notin {"TypeError", "ValueError"}
    THEN is_unique(self, attr)
    ELSE attr

\* a constructed SortedIndex or a constructed SortedMultiIndex is at hand
InitRepeat ==
    /\ \/ idx \in ConstructedIndexes /\ midx = NoMulti
       \/ idx = <<>> /\ midx \in ConstructedMultiIndexes
    /\ res = NoOp
    /\ cached = "unset"
    /\ memo = NoOp
    /\ orig = NoCaller
    /\ gin = NoArray
    /\ bc = FALSE
    /\ pk = NoOutcome
    /\ bin = NoPacked
    /\ un = NoOutcome
    /\ link = "none"

\* the lookups that can be made of what is at hand
CallsAtHand ==
    (IF midx = NoMulti THEN IndexCalls ELSE <<>>)
    \o (IF idx = <<>> THEN MultiCalls ELSE <<>>)

\* the lookups made in between: every lookup of a SortedIndex (two of them
\* cache is_unique); of a SortedMultiIndex, whose lookups write nothing,
\* locate_key
CallsBetween ==
    (IF midx = NoMulti THEN IndexCalls ELSE <<>>)
    \o (IF idx = <<>> THEN <<MultiCalls[1]>> ELSE <<>>)

\* a first lookup: memo keeps the call, its outcome, the keys it was made
\* on and the _is_unique attribute it found
FirstCall ==
    /\ memo = NoOp
    /\ \E i \in DOMAIN CallsAtHand : \E call \in CallsAtHand[i] :
        LET out == perform(idx, cached, midx, call)
        IN  /\ memo' = [op |-> call.op, args |-> call.args, out |-> out,
                        keys |-> <<idx, midx>>, attr |-> cached]
            /\ cached' = attr_after(idx, cached, call, out)
    /\ UNCHANGED <<idx, midx, res, orig, codecVars>>

\* any lookup, or a read of is_unique, made in between: its outcome goes
\* to the caller, the instance keeps what the call cached
OtherCall ==
    /\ memo # NoOp
    /\ \/ \E i \in DOMAIN CallsBetween : \E call \in CallsBetween[i] :
            cached' = attr_after(idx, cached, call,
                                 perform(idx, cached, midx, call))
       \/ midx = NoMulti /\ cached' = is_unique(idx, cached)
    /\ UNCHANGED <<idx, midx, res, memo, orig, codecVars>>

\* the first lookup made again with the same arguments
RepeatCall ==
    /\ memo # NoOp
    /\ LET call == Call(memo.op, memo.args)
           out == perform(idx, cached, midx, call)
       IN  /\ res' = Op(call.op, call.args, out)
           /\ cached' = attr_after(idx, cached, call, out)
    /\ UNCHANGED <<idx, midx, memo, orig, codecVars>>

NextRepeat ==
    \/ FirstCall
    \/ OtherCall
    \/ RepeatCall

SpecRepeat == InitRepeat /\ [][NextRepeat]_vars

\* ------------------------------------------------------------------------
\* Properties of repeated lookups (SpecRepeat)
\* ------------------------------------------------------------------------

\* C24: a lookup repeated with the same arguments gives the identical
\* result or the identical error, whatever lookups were made in between
\* and whether or not is_unique is cached by then; the keys stay as they
\* were.
C24_LookupIdempotent ==
    /\ memo # NoOp => <<idx, midx>> = memo.keys
    /\ res # NoOp =>
            /\ res.op = memo.op
            /\ res.args = memo.args
            /\ res.out = memo.out

C24_Witness ==
    /\ res # NoOp
    /\ memo.op = "locate_keys"
    /\ memo.args = <<<<0, 1>>, TRUE>>
    /\ memo.attr = "unset"
    /\ idx = <<0, 0, 2>>
    /\ cached = "False"
    /\ res.out = memo.out
    /\ res.out.status = "KeyError"

\* ------------------------------------------------------------------------
\* SpecOwner: an index built from the caller's sequences, which the caller
\* then writes to
\* ------------------------------------------------------------------------

\* np.array(data) sharing the caller's storage whatever copy says
shares_storage_always(kind, copy) == kind = "ndarray"

\* np.array(data, copy=copy) shares the storage of data only when data is
\* an ndarray and copy is False; obj.view(cls) shares that of obj
shares_storage(kind, copy) == kind = "ndarray" /\ ~copy

\* sequence a with key k written at position p (counted from 1)
Written(a, p, k) == [a EXCEPT ![p] = k]

\* the caller holds l1 and l2, as ndarrays or as lists; no index is built
InitOwner ==
    /\ \E kind \in ArrayKinds, l1 \in ConstructedIndexes :
        \E l2 \in SeqsOf(Keys, Len(l1), Len(l1)) :
            orig = [kind |-> kind, l1 |-> l1, l2 |-> l2, shared |-> FALSE,
                    writes |-> 0]
    /\ idx = <<>>
    /\ midx = NoMulti
    /\ res = NoOp
    /\ memo = NoOp
    /\ cached = "unset"
    /\ gin = NoArray
    /\ bc = FALSE
    /\ pk = NoOutcome
    /\ bin = NoPacked
    /\ un = NoOutcome
    /\ link = "none"

\* idx = SortedIndex(l1, copy=copy); memo keeps the call
NewOwnedIndex ==
    /\ memo = NoOp
    /\ \E copy \in BOOLEAN :
        LET out == SortedIndex_new(OneDim(orig.l1))
        IN  /\ memo' = Op("SortedIndex", <<copy>>, out)
            /\ idx' = out.value
            /\ orig' = [orig EXCEPT !.shared =
                                        shares_storage(orig.kind, copy)]
    /\ UNCHANGED <<midx, res, cached, codecVars>>

\* midx = SortedMultiIndex(l1, l2, copy=copy); memo keeps the call
NewOwnedMultiIndex ==
    /\ memo = NoOp
    /\ \E copy \in BOOLEAN :
        LET out == SortedMultiIndex_init(OneDim(orig.l1), orig.l2)
        IN  /\ memo' = Op("SortedMultiIndex", <<copy>>, out)
            /\ midx' = out.value
            /\ orig' = [orig EXCEPT !.shared =
                                        shares_storage(orig.kind, copy)]
    /\ UNCHANGED <<idx, res, cached, codecVars>>

\* the caller assigns l1[p] = k or l2[p] = k; an index sharing the storage
\* has the key written too
CallerWrites ==
    /\ memo # NoOp
    /\ res = NoOp
    /\ orig.writes < MaxWrites
    /\ \E p \in DOMAIN orig.l1, k \in Keys, first \in BOOLEAN :
        LET l1 == IF first THEN Written(orig.l1, p, k) ELSE orig.l1
            l2 == IF first THEN orig.l2 ELSE Written(orig.l2, p, k)
        IN  /\ orig' = [orig EXCEPT !.l1 = l1, !.l2 = l2,
                                    !.writes = orig.writes + 1]
            /\ idx' = IF orig.shared /\ memo.op = "SortedIndex"
                      THEN l1 ELSE idx
            /\ midx' = IF orig.shared /\ memo.op = "SortedMultiIndex"
                       THEN [l1 |-> l1, l2 |-> l2] ELSE midx
    /\ UNCHANGED <<memo, res, cached, codecVars>>

\* idx.locate_key(key), or midx.locate_key(k1, k2), of the index built
LookupOwned ==
    /\ memo # NoOp
    /\ res = NoOp
    /\ \/ /\ memo.op = "SortedIndex"
          /\ \E key \in Probes :
                res' = Op("locate_key", <<key>>, locate_key(idx, key))
       \/ /\ memo.op = "SortedMultiIndex"
          /\ \E k1 \in Keys, k2 \in {None} \cup Keys :
                res' = Op("SortedMultiIndex.locate_key", <<k1, k2>>,
                          SortedMultiIndex_locate_key(midx, k1, k2))
    /\ UNCHANGED <<idx, midx, memo, orig, cached, codecVars>>

NextOwner ==
    \/ NewOwnedIndex
    \/ NewOwnedMultiIndex
    \/ CallerWrites
    \/ LookupOwned

SpecOwner == InitOwner /\ [][NextOwner]_vars

\* ------------------------------------------------------------------------
\* Properties of key ownership (SpecOwner)
\* ------------------------------------------------------------------------

\* C25: an index built without copy=False holds its own copy of the keys:
\* whatever the caller writes to the sequences afterwards, the index holds
\* the keys it was built with and its lookups answer as on those keys; an
\* index shares the caller's storage only if built with copy=False.
C25_PrivateCopy ==
    /\ orig.shared => memo.args = <<FALSE>>
    /\ (memo # NoOp /\ memo.args = <<TRUE>>) =>
            /\ memo.op = "SortedIndex" => idx = memo.out.value
            /\ memo.op = "SortedMultiIndex" => midx = memo.out.value
            /\ res.op = "locate_key" =>
                    res.out = locate_key(memo.out.value, res.args[1])
            /\ res.op = "SortedMultiIndex.locate_key" =>
                    res.out = SortedMultiIndex_locate_key(
                                  memo.out.value, res.args[1], res.args[2])

C25_Witness ==
    /\ memo.op = "SortedMultiIndex"
    /\ memo.args = <<TRUE>>
    /\ memo.out.status = "ok"
    /\ memo.out.value.l1 = <<0, 1>>
    /\ memo.out.value.l2 = <<2, 2>>
    /\ orig.kind = "ndarray"
    /\ orig.l2 = <<2, 0>>
    /\ midx.l2 = <<2, 2>>
    /\ res.op = "SortedMultiIndex.locate_key"
    /\ res.args = <<1, 2>>
    /\ res.out.status = "ok"
    /\ res.out.value = IntLoc(1)

\* ------------------------------------------------------------------------
\* Containers: the ndarray subclasses, their constructors and __getitem__
\* ------------------------------------------------------------------------

\* s.ndim == N in the __getitem__ of each class
FixedNdim(cls) ==
    CASE cls = "GenotypeArray" -> 3
      [] cls \in {"HaplotypeArray", "AlleleCountsArray"} -> 2
      [] cls \in {"SortedIndex", "UniqueIndex"} -> 1

\* cls._check_input_data(obj) for obj = [kind, shape, vals]: dtype kind,
\* shape, and the keys where the class looks at them
check_container_data(cls, obj) ==
    CASE cls = "GenotypeArray" ->
            IF obj.kind \notin {"u", "i"} THEN "TypeError"
            ELSE IF Len(obj.shape) # 3 THEN "TypeError"
            ELSE IF obj.shape[3] = 1 THEN "ValueError"
            ELSE "ok"
      [] cls \in {"HaplotypeArray", "AlleleCountsArray"} ->
            IF obj.kind \notin {"u", "i"} THEN "TypeError"
            ELSE IF Len(obj.shape) # 2 THEN "TypeError"
            ELSE "ok"
      [] cls = "SortedIndex" ->
            check_input_data([ndim |-> Len(obj.shape), vals |-> obj.vals])
      [] cls = "UniqueIndex" ->
            IF Len(obj.shape) # 1 THEN "TypeError"
            ELSE IF \E i, j \in DOMAIN obj.vals :
                        i # j /\ obj.vals[i] = obj.vals[j]
                 THEN "ValueError"
            ELSE "ok"

\* cls.__new__(cls, data): the instance is [cls, kind, shape]
container_new(cls, data) ==
    IF check_container_data(cls, data) # "ok"
    THEN Raise(check_container_data(cls, data))
    ELSE Return([cls |-> cls, kind |-> data.kind, shape |-> data.shape])

\* one element of an index tuple: the integer 0, the slices :, :1 and 1:,
\* and np.newaxis
IndexElems == {"int", "all", "head", "rest", "new"}

\* the shape of np.ndarray.__getitem__(self, index) for an array of the
\* given shape, <<-1>> where it raises IndexError (an integer index on an
\* axis of length 0, more indices than axes); axes beyond the index tuple
\* are kept whole
RECURSIVE index_shape(_, _)
index_shape(shape, index) ==
    IF index = <<>> THEN shape
    ELSE LET e == Head(index)
             after == IF e = "new" THEN index_shape(shape, Tail(index))
                      ELSE IF shape = <<>> THEN <<-1>>
                      ELSE index_shape(Tail(shape), Tail(index))
             axis == CASE e = "new" -> <<1>>
                       [] e = "int" -> <<>>
                       [] e = "all" -> <<shape[1]>>
                       [] e = "head" -> <<Min(1, shape[1])>>
                       [] e = "rest" -> <<Max(shape[1] - 1, 0)>>
         IN  IF after = <<-1>> THEN <<-1>>
             ELSE IF e = "int" /\ shape[1] = 0 THEN <<-1>>
             ELSE axis \o after

\* __getitem__ keeping the class of every result that has N dimensions
getitem_by_ndim(self, index) ==
    LET s == index_shape(self.shape, index)
        type == IF Len(s) = FixedNdim(self.cls) THEN self.cls
                ELSE IF Len(s) > 0 THEN "ndarray"
                ELSE "scalar"
    IN  IF s = <<-1>> THEN Raise("IndexError")
        ELSE Return([cls |-> type, kind |-> self.kind, shape |-> s])

\* cls.__getitem__(self, index): s keeps the class if it has N dimensions
\* (AlleleCountsArray: and as many columns as self), is made a plain
\* ndarray if it has other dimensions, and is the scalar that np.ndarray
\* returned if it has none
getitem(self, index) ==
    LET s == index_shape(self.shape, index)
        kept == /\ Len(s) = FixedNdim(self.cls)
                /\ self.cls = "AlleleCountsArray" => s[2] = self.shape[2]
        type == IF kept THEN self.cls
                ELSE IF Len(s) > 0 THEN "ndarray"
                ELSE "scalar"
    IN  IF s = <<-1>> THEN Raise("IndexError")
        ELSE Return([cls |-> type, kind |-> self.kind, shape |-> s])

\* ------------------------------------------------------------------------
\* SpecTypes: a container is constructed, then indexed, the result indexed
\* again as long as it is a container
\* ------------------------------------------------------------------------

\* arrays handed to the constructors of the array classes
ArrayData ==
    {[kind |-> k, shape |-> sh, vals |-> <<>>] :
        k \in {"i", "u", "f"}, sh \in SeqsOf(0..MaxDim, 1, 4)}

\* arrays of keys handed to the constructors of the index classes
KeyData ==
    {[kind |-> "i", shape |-> <<Len(v)>>, vals |-> v] :
        v \in SeqsOf(Keys, 0, MaxLen)}
    \cup {[kind |-> "i", shape |-> <<1, 1>>, vals |-> <<0>>]}

\* the index tuples
IndexArgs == SeqsOf(IndexElems, 0, 3)

\* memo keeps the constructor call and what it returned
InitTypes ==
    /\ \/ \E cls \in {"GenotypeArray", "HaplotypeArray", "AlleleCountsArray"},
             data \in ArrayData :
                memo = Op(cls, data, container_new(cls, data))
       \/ \E cls \in {"SortedIndex", "UniqueIndex"}, data \in KeyData :
                memo = Op(cls, data, container_new(cls, data))
    /\ res = NoOp
    /\ idx = <<>>
    /\ midx = NoMulti
    /\ orig = NoCaller
    /\ cached = "unset"
    /\ gin = NoArray
    /\ bc = FALSE
    /\ pk = NoOutcome
    /\ bin = NoPacked
    /\ un = NoOutcome
    /\ link = "none"

\* the container at hand: the one constructed, or the last result
AtHand == IF res = NoOp THEN memo.out ELSE res.out

\* s = self[index] for the container at hand
GetItem ==
    /\ AtHand.status = "ok"
    /\ AtHand.value.cls \notin {"ndarray", "scalar"}
    /\ \E index \in IndexArgs :
        res' = Op("getitem", <<AtHand.value, index>>,
                  getitem(AtHand.value, index))
    /\ UNCHANGED <<idx, midx, memo, orig, cached, codecVars>>

NextTypes == GetItem

SpecTypes == InitTypes /\ [][NextTypes]_vars

\* ------------------------------------------------------------------------
\* Properties of the container types (SpecTypes)
\* ------------------------------------------------------------------------

C28_GenotypeArrayValid ==
    \A out \in {memo.out, res.out} :
        (out.status = "ok" /\ out.value.cls = "GenotypeArray") =>
            /\ out.value.kind \in {"i", "u"}
            /\ Len(out.value.shape) = 3
            /\ out.value.shape[3] # 1

\* ------------------------------------------------------------------------
\* subset: sub-selection of rows and columns
\* ------------------------------------------------------------------------

\* a selection that is not given (None)
NoSel == [kind |-> "none", vals |-> <<>>]

\* np.nonzero(vals)[0]: the positions, counted from 0, of the entries of
\* vals that are not 0 (not False)
nonzero(vals) ==
    LET RECURSIVE From(_)
        From(i) == IF i > Len(vals) THEN <<>>
                   ELSE (IF vals[i] # 0 THEN <<i - 1>> ELSE <<>>)
                        \o From(i + 1)
    IN  From(1)

\* the rows or columns np.compress(sel, data, axis) keeps on an axis of
\* length n, <<-1>> where an entry beyond the axis is not 0 and it raises
np_compress(vals, n) ==
    IF \E i \in DOMAIN nonzero(vals) : nonzero(vals)[i] >= n THEN <<-1>>
    ELSE nonzero(vals)

\* the array with the rows and the columns of data at the given positions,
\* an entry of data being named by its row and column
picked(rows, cols) ==
    [i \in 1..Len(rows) |-> [j \in 1..Len(cols) |-> <<rows[i], cols[j]>>]]

\* every position of an axis of length n, in order
whole(n) == [i \in 1..n |-> i - 1]

\* subset(data, sel0, sel1) for data of the given shape, as
\* GenotypeArray.subset and HaplotypeArray.subset call it: one selection
\* given is taken as indices (np.take) if it is shorter than the axis and
\* as a condition (np.compress) otherwise; of two selections given, one as
\* long as its axis is turned into the positions of its non-zero entries
subset(shape, sel0, sel1) ==
    LET rows == IF sel0.kind = "none" THEN whole(shape[1])
                ELSE IF sel1.kind = "none" /\ Len(sel0.vals) < shape[1]
                     THEN sel0.vals
                ELSE IF sel1.kind = "none"
                     THEN np_compress(sel0.vals, shape[1])
                ELSE IF Len(sel0.vals) = shape[1] THEN nonzero(sel0.vals)
                ELSE sel0.vals
        cols == IF sel1.kind = "none" THEN whole(shape[2])
                ELSE IF sel0.kind = "none" /\ Len(sel1.vals) < shape[2]
                     THEN sel1.vals
                ELSE IF sel0.kind = "none"
                     THEN np_compress(sel1.vals, shape[2])
                ELSE IF Len(sel1.vals) = shape[2] THEN nonzero(sel1.vals)
                ELSE sel1.vals
    IN  IF sel0.kind = "none" /\ sel1.kind = "none" THEN Raise("ValueError")
        ELSE IF rows = <<-1>> \/ cols = <<-1>> THEN Raise("IndexError")
        ELSE Return(picked(rows, cols))

\* ------------------------------------------------------------------------
\* SpecSubset: subset applied to an array and one or two selections
\* ------------------------------------------------------------------------

\* the selections for an axis of length n: none, a list of up to n + 1
\* positions in any order, a boolean array of length n
Selections(n) ==
    {NoSel}
    \cup {[kind |-> "indices", vals |-> v] :
            v \in SeqsOf(0..(n - 1), 0, n + 1)}
    \cup {[kind |-> "bool", vals |-> v] : v \in SeqsOf({0, 1}, n, n)}

\* no subset has been taken
InitSubset ==
    /\ res = NoOp
    /\ memo = NoOp
    /\ idx = <<>>
    /\ midx = NoMulti
    /\ orig = NoCaller
    /\ cached = "unset"
    /\ gin = NoArray
    /\ bc = FALSE
    /\ pk = NoOutcome
    /\ bin = NoPacked
    /\ un = NoOutcome
    /\ link = "none"

\* g.subset(sel0, sel1) for an array g of n0 variants and n1 samples (or
\* haplotypes)
Subset ==
    /\ res = NoOp
    /\ \E n0 \in 1..MaxDim, n1 \in 1..MaxDim :
        \E sel0 \in Selections(n0), sel1 \in Selections(n1) :
            res' = Op("subset", <<<<n0, n1>>, sel0, sel1>>,
                      subset(<<n0, n1>>, sel0, sel1))
    /\ UNCHANGED <<idx, midx, memo, orig, cached, codecVars>>

NextSubset == Subset

SpecSubset == InitSubset /\ [][NextSubset]_vars

\* ------------------------------------------------------------------------
\* Properties of subset (SpecSubset)
\* ------------------------------------------------------------------------

\* the positions a selection asks for on an axis of length n
Asked(sel, n) ==
    IF sel.kind = "none" THEN whole(n)
    ELSE IF sel.kind = "indices" THEN sel.vals
    ELSE KeysWhere(whole(n), LAMBDA p : sel.vals[p + 1] = 1)

\* C27: subset returns, for a list of indices along an axis (of any length,
\* the length of the axis included), exactly the rows or columns at those
\* indices in the order given, for a boolean array exactly those where it
\* is true, and for two selections the cross product of the two.
C27_SubsetSelection ==
    (/\ res.op = "subset"
     /\ ~(res.args[2] = NoSel /\ res.args[3] = NoSel)) =>
        res.out = Return(picked(Asked(res.args[2], res.args[1][1]),
                                Asked(res.args[3], res.args[1][2])))

\* ------------------------------------------------------------------------
\* GenotypeArray: classification of a genotype call
\* ------------------------------------------------------------------------

\* allel.constants.DIPLOID
DIPLOID == 2

\* the branch a method takes for a call: self.shape[-1] == DIPLOID
path_of(call) == IF Len(call) = DIPLOID THEN "diploid" ELSE "general"

\* GenotypeArray.is_called() at one call, by the given branch
is_called(call, path) ==
    IF path = "diploid" THEN call[1] >= 0 /\ call[2] >= 0
    ELSE \A i \in DOMAIN call : call[i] >= 0

\* GenotypeArray.is_missing() at one call, by the given branch
is_missing(call, path) ==
    IF path = "diploid" THEN call[1] < 0 \/ call[2] < 0
    ELSE \E i \in DOMAIN call : call[i] < 0

\* is_hom() without the test that the first allele is called
is_hom_equal(call, path) ==
    IF path = "diploid" THEN call[1] = call[2]
    ELSE \A i \in 2..Len(call) : call[1] = call[i]

\* GenotypeArray.is_hom(allele=None) at one call, by the given branch
is_hom(call, path) ==
    IF path = "diploid" THEN call[1] >= 0 /\ call[1] = call[2]
    ELSE \A i \in 2..Len(call) : call[1] >= 0 /\ call[1] = call[i]

\* GenotypeArray.is_het() at one call, by the given branch
is_het(call, path) ==
    IF path = "diploid"
    THEN call[1] >= 0 /\ call[2] >= 0 /\ call[1] # call[2]
    ELSE /\ \A i \in DOMAIN call : call[i] >= 0
         /\ \E i \in 2..Len(call) : call[1] # call[i]

\* what the four methods answer at one call, by the given branch
answers(call, path) ==
    [is_called |-> is_called(call, path),
     is_missing |-> is_missing(call, path),
     is_hom |-> is_hom(call, path),
     is_het |-> is_het(call, path)]

\* ------------------------------------------------------------------------
\* SpecClassify: the four methods applied to one genotype call
\* ------------------------------------------------------------------------

\* the genotype calls: 2..MaxPloidy alleles each
GenotypeCalls == SeqsOf(Alleles, DIPLOID, MaxPloidy)

\* no call has been classified
InitClassify ==
    /\ res = NoOp
    /\ memo = NoOp
    /\ idx = <<>>
    /\ midx = NoMulti
    /\ orig = NoCaller
    /\ cached = "unset"
    /\ gin = NoArray
    /\ bc = FALSE
    /\ pk = NoOutcome
    /\ bin = NoPacked
    /\ un = NoOutcome
    /\ link = "none"

\* is_called, is_missing, is_hom and is_het of an array holding the call;
\* memo keeps what the general branch answers for the same call
Classify ==
    /\ res = NoOp
    /\ \E call \in GenotypeCalls :
        /\ res' = Op("classify", call,
                     Return(answers(call, path_of(call))))
        /\ memo' = Op("classify", call, Return(answers(call, "general")))
    /\ UNCHANGED <<idx, midx, orig, cached, codecVars>>

NextClassify == Classify

SpecClassify == InitClassify /\ [][NextClassify]_vars

\* ------------------------------------------------------------------------
\* Properties of the classification (SpecClassify)
\* ------------------------------------------------------------------------

\* C30: for every genotype call of ploidy 2 or more exactly one of
\* is_missing, is_hom() and is_het holds, is_called is the negation of
\* is_missing, and the diploid branch and the general branch agree on
\* diploid calls.
C30_CallPartition ==
    res.op = "classify" =>
        LET a == res.out.value
        IN  /\ Cardinality({k \in {"is_missing", "is_hom", "is_het"} :
                                a[k]}) = 1
            /\ a.is_called = ~a.is_missing
            /\ Len(res.args) = DIPLOID => memo.out.value = a

C30_Witness ==
    /\ res.op = "classify"
    /\ res.args = <<-1, -1>>
    /\ res.out.value = [is_called |-> FALSE, is_missing |-> TRUE,
                        is_hom |-> FALSE, is_het |-> FALSE]
    /\ memo.out.value = res.out.value

====
